---- MODULE Spec2Model ----
(***************************************************************************)
(* Model of property-data-tester/scripts/delete-hawaii-data.py:            *)
(* cleanup_hawaii_records(), the interactive procedure that deletes every  *)
(* row referencing a property whose property_state is 'HI'.                *)
(*                                                                         *)
(* The database is modelled by two views: db, the committed contents, and  *)
(* tx, what the connection's open transaction sees.  A view holds, per     *)
(* table and property id, the number of rows referencing that property,    *)
(* and per change-tracking trigger its enabled flag (ALTER TABLE is        *)
(* transactional in PostgreSQL).                                           *)
(***************************************************************************)
EXTENDS Integers, Sequences, FiniteSets

(* ------------------------------ bounds --------------------------------- *)
\* property ids 1..MaxProp exist in the properties table
MaxProp == 2
\* total number of rows in the six dependent tables at the start
MaxRows == 2

PropIds == 1..MaxProp

(* --------------------------- schema ------------------------------------ *)
\* fault: the count loop leaves the parent table out
tables_and_counts_without_parent ==
    << "property_owner_history", "property_history", "loan_history",
       "mail_recipients", "loans", "property_owners" >>

\* tables_and_counts, in the order the script lists them
tables_and_counts ==
    << "property_owner_history", "property_history", "loan_history",
       "mail_recipients", "loans", "property_owners", "properties" >>

Tables ==
    { "property_owner_history", "property_history", "loan_history",
      "mail_recipients", "loans", "property_owners", "properties" }
HistoryTables == {"property_owner_history", "property_history", "loan_history"}
DependentTables == Tables \ {"properties"}

\* tables that carry (or may carry) a change-tracking trigger
TrackedTables == {"property_owners", "properties", "loans"}

\* the history table a change-tracking trigger writes to
HistoryOf(t) ==
    CASE t = "property_owners" -> "property_owner_history"
      [] t = "properties" -> "property_history"
      [] t = "loans" -> "loan_history"

\* tables holding a foreign key to t
ReferencedBy(t) ==
    CASE t = "properties" -> DependentTables
      [] t = "loans" -> {"mail_recipients"}
      [] t = "property_owners" -> {"mail_recipients"}
      [] OTHER -> {}

(* --------------------------- console input ----------------------------- *)
yes == << "y", "e", "s" >>

\* what the operator may type at a prompt
Answers ==
    { yes, << "Y", "e", "S" >>, << "n", "o" >>, << "y", "e", "s", " " >> }

\* str.lower() on one character
LowerChar(c) ==
    CASE c = "Y" -> "y"
      [] c = "E" -> "e"
      [] c = "S" -> "s"
      [] c = "N" -> "n"
      [] c = "O" -> "o"
      [] OTHER -> c

\* str.lower()
Lower(s) == [ i \in DOMAIN s |-> LowerChar(s[i]) ]

\* fault: any answer but "no" confirms
IsYesAnythingButNo(ans) == Lower(ans) # << "n", "o" >>

\* confirm.lower() == 'yes'
IsYes(ans) == Lower(ans) = yes

(* --------------------------- SQL semantics ----------------------------- *)
\* SELECT COUNT( * ) FROM table WHERE property_id IN (ids)
CountIn(view, t, ids) ==
    LET RECURSIVE Sum(_)
        Sum(S) == IF S = {} THEN 0
                  ELSE LET p == CHOOSE q \in S : TRUE
                       IN view.rows[t][p] + Sum(S \ {p})
    IN Sum(ids)

\* a DELETE on t for ids would leave a referencing row without its parent
FKViolation(view, t, ids) ==
    \E p \in ids :
        /\ view.rows[t][p] > 0
        /\ \E c \in ReferencedBy(t) : view.rows[c][p] > 0

\* the rows an enabled change-tracking trigger on t appends for a DELETE
FireTrigger(view, t, ids) ==
    IF t \in TrackedTables /\ view.trig[t]
    THEN [ view EXCEPT !.rows[HistoryOf(t)] =
             [ p \in PropIds |-> IF p \in ids THEN @[p] + view.rows[t][p] ELSE @[p] ] ]
    ELSE view

\* fault: WHERE property_id = (the first id) instead of IN (ids)
DeleteOnlyFirstId(view, t, ids) ==
    LET fired == FireTrigger(view, t, ids)
        first == CHOOSE p \in ids : \A q \in ids : p <= q
    IN [ fired EXCEPT !.rows[t] = [ p \in PropIds |-> IF p = first THEN 0 ELSE @[p] ] ]

\* DELETE FROM t WHERE property_id IN (ids)
DeleteFrom(view, t, ids) ==
    LET fired == FireTrigger(view, t, ids)
    IN [ fired EXCEPT !.rows[t] = [ p \in PropIds |-> IF p \in ids THEN 0 ELSE @[p] ] ]

\* ALTER TABLE t DISABLE / ENABLE TRIGGER
SetTrigger(view, t, on) == [ view EXCEPT !.trig[t] = on ]

(* --------------------------- transaction semantics --------------------- *)
\* fault: the connection runs in autocommit mode
CommittedAutocommit(dbv, txv) == txv

\* the committed view after a statement ran in the open transaction:
\* psycopg2 connections are not in autocommit mode, so it is unchanged
Committed(dbv, txv) == dbv

\* fault: the rollback has no effect
RollbackKeepsChanges(dbv, txv) == txv

\* conn.rollback(): the transaction's view falls back to the committed one
Rollback(dbv, txv) == dbv

(* --------------------------- the cleanup script ------------------------ *)
Stmt(o, t) == [ op |-> o, tbl |-> t ]

\* fault: loans is deleted before mail_recipients
DeletePhaseLoansFirst ==
    << Stmt("DELETE", "property_owner_history"),
       Stmt("DELETE", "property_history"),
       Stmt("DELETE", "loan_history"),
       Stmt("DELETE", "loans"),
       Stmt("DELETE", "mail_recipients"),
       Stmt("DISABLE", "property_owners"),
       Stmt("DELETE", "property_owners"),
       Stmt("ENABLE", "property_owners"),
       Stmt("DISABLE", "properties"),
       Stmt("DELETE", "properties"),
       Stmt("ENABLE", "properties") >>

\* fault: the trigger on properties is not enabled again
DeletePhaseNoEnable ==
    << Stmt("DELETE", "property_owner_history"),
       Stmt("DELETE", "property_history"),
       Stmt("DELETE", "loan_history"),
       Stmt("DELETE", "mail_recipients"),
       Stmt("DELETE", "loans"),
       Stmt("DISABLE", "property_owners"),
       Stmt("DELETE", "property_owners"),
       Stmt("ENABLE", "property_owners"),
       Stmt("DISABLE", "properties"),
       Stmt("DELETE", "properties") >>

\* fault: the trigger on property_owners is not disabled
DeletePhaseNoDisable ==
    << Stmt("DELETE", "property_owner_history"),
       Stmt("DELETE", "property_history"),
       Stmt("DELETE", "loan_history"),
       Stmt("DELETE", "mail_recipients"),
       Stmt("DELETE", "loans"),
       Stmt("DELETE", "property_owners"),
       Stmt("ENABLE", "property_owners"),
       Stmt("DISABLE", "properties"),
       Stmt("DELETE", "properties"),
       Stmt("ENABLE", "properties") >>

\* the statements of the delete phase, in program order
DeletePhase ==
    << Stmt("DELETE", "property_owner_history"),
       Stmt("DELETE", "property_history"),
       Stmt("DELETE", "loan_history"),
       Stmt("DELETE", "mail_recipients"),
       Stmt("DELETE", "loans"),
       Stmt("DISABLE", "property_owners"),
       Stmt("DELETE", "property_owners"),
       Stmt("ENABLE", "property_owners"),
       Stmt("DISABLE", "properties"),
       Stmt("DELETE", "properties"),
       Stmt("ENABLE", "properties") >>

(* --------------------------- state ------------------------------------- *)
VARIABLES
    pc,                  \* position in cleanup_hawaii_records
    step,                \* index of the next statement of the delete phase
    db,                  \* committed database contents
    tx,                  \* contents as seen by the connection's transaction
    property_state,      \* properties.property_state, by property id
    conn,                \* "none" (not in locals), "open", "closed"
    cur,                 \* "none" (not in locals), "open", "closed"
    hawaii_property_ids, \* the captured target ids
    records_exist,
    pre_counts,          \* counts printed before the delete, by table
    final_counts,        \* counts printed in the final report
    confirm1,            \* answer at "proceed with deletion?"
    confirm2,            \* answer at "commit these changes?"
    stmts,               \* mutating statements the server has executed
    msgs,                \* messages printed to the console
    raised,              \* the step at which an exception was raised
    rollback_attempts,   \* conn.rollback() calls made by the except clause
    propagated,          \* an exception leaves cleanup_hawaii_records
    close_count,         \* conn.close() calls
    db0                  \* the committed contents at the start of the run

vars ==
    << pc, step, db, tx, property_state, conn, cur, hawaii_property_ids,
       records_exist, pre_counts, final_counts, confirm1, confirm2, stmts,
       msgs, raised, rollback_attempts, propagated, close_count, db0 >>

NoCounts == [ t \in {} |-> 0 ]
NoAnswer == << "-" >>

\* placements of at most MaxRows rows over the dependent tables
Slots == DependentTables \X PropIds
Placements == [ 1..MaxRows -> Slots \cup {<< "-", 0 >>} ]

RowsOf(pl) ==
    [ t \in Tables |->
        [ p \in PropIds |->
            IF t = "properties" THEN 1
            ELSE Cardinality({ i \in DOMAIN pl : pl[i] = << t, p >> }) ] ]

\* the number of dependent rows a placement gives property p
Load(pl, p) == Cardinality({ i \in DOMAIN pl : pl[i][2] = p })

\* databases the run may start from, with the given trigger flag on loans.
\* The script treats property ids alike, so one numbering stands for all:
\* the 'HI' properties come first, and among properties of the same state
\* those with more dependent rows come first.  The two triggers the script
\* names are enabled, the state in which the script leaves them.
InitWith(loansTracked) ==
    /\ \E n \in 0..MaxProp :
         property_state = [ p \in PropIds |-> IF p <= n THEN "HI" ELSE "CA" ]
    /\ \E pl \in Placements :
         /\ \A p \in PropIds \ {MaxProp} :
              property_state[p] = property_state[p + 1]
                 => Load(pl, p) >= Load(pl, p + 1)
         /\ db = [ rows |-> RowsOf(pl),
                   trig |-> [ t \in TrackedTables |->
                                IF t = "loans" THEN loansTracked ELSE TRUE ] ]
    /\ tx = db
    /\ db0 = db
    /\ pc = "connect"
    /\ step = 0
    /\ conn = "none"
    /\ cur = "none"
    /\ hawaii_property_ids = {}
    /\ records_exist = FALSE
    /\ pre_counts = NoCounts
    /\ final_counts = NoCounts
    /\ confirm1 = NoAnswer
    /\ confirm2 = NoAnswer
    /\ stmts = << >>
    /\ msgs = {}
    /\ raised = "none"
    /\ rollback_attempts = 0
    /\ propagated = FALSE
    /\ close_count = 0

\* the schema the script names: triggers on property_owners and properties
Init == InitWith(FALSE)

\* the schema in which loans carries a change-tracking trigger as well
InitLoansTracked == InitWith(TRUE)

(* --------------------------- helpers ----------------------------------- *)
\* the lines a count loop prints: for each entry of tables_and_counts the
\* number of rows of that table referencing the ids
Report(view, ids) ==
    [ t \in { tables_and_counts[i] : i \in DOMAIN tables_and_counts } |->
        CountIn(view, t, ids) ]

\* the steps that talk to the server or the console, and so may raise
RaisingSteps ==
    { "cursor", "identify", "count", "gate1", "cleanup", "gate2", "commit",
      "rollback", "final" }

\* after statement step of the delete phase: the next one, or gate 2
AfterCleanupStep ==
    IF step < Len(DeletePhase)
    THEN pc' = "cleanup" /\ step' = step + 1
    ELSE pc' = "gate2" /\ step' = 0

(* --------------------------- actions ----------------------------------- *)
\* conn = psycopg2.connect(...)
Connect ==
    /\ pc = "connect"
    /\ conn' = "open"
    /\ pc' = "cursor"
    /\ UNCHANGED << step, db, tx, property_state, cur, hawaii_property_ids,
                    records_exist, pre_counts, final_counts, confirm1, confirm2,
                    stmts, msgs, raised, rollback_attempts, propagated,
                    close_count, db0 >>

\* psycopg2.connect raises: conn is never bound
ConnectRaises ==
    /\ pc = "connect"
    /\ raised' = "connect"
    /\ pc' = "except"
    /\ UNCHANGED << step, db, tx, property_state, conn, cur, hawaii_property_ids,
                    records_exist, pre_counts, final_counts, confirm1, confirm2,
                    stmts, msgs, rollback_attempts, propagated, close_count, db0 >>

\* cur = conn.cursor()
Cursor ==
    /\ pc = "cursor"
    /\ cur' = "open"
    /\ pc' = "identify"
    /\ UNCHANGED << step, db, tx, property_state, conn, hawaii_property_ids,
                    records_exist, pre_counts, final_counts, confirm1, confirm2,
                    stmts, msgs, raised, rollback_attempts, propagated,
                    close_count, db0 >>

\* a call on the cursor, the connection or input() raises (server error,
\* lost connection, end of input): control passes to the except clause
StatementRaises ==
    /\ pc \in RaisingSteps
    /\ raised' = pc
    /\ pc' = "except"
    /\ UNCHANGED << step, db, tx, property_state, conn, cur, hawaii_property_ids,
                    records_exist, pre_counts, final_counts, confirm1, confirm2,
                    stmts, msgs, rollback_attempts, propagated, close_count, db0 >>

\* SELECT ... FROM properties WHERE property_state = 'HI'; fetchall();
\* return when nothing matches, else capture the ids
Identify ==
    /\ pc = "identify"
    /\ LET ids == { p \in PropIds :
                      tx.rows["properties"][p] > 0 /\ property_state[p] = "HI" }
       IN IF ids = {}
          THEN /\ msgs' = msgs \cup {"no_properties"}
               /\ pc' = "finally"
               /\ UNCHANGED hawaii_property_ids
          ELSE /\ hawaii_property_ids' = ids
               /\ pc' = "count"
               /\ UNCHANGED msgs
    /\ UNCHANGED << step, db, tx, property_state, conn, cur, records_exist, pre_counts,
                    final_counts, confirm1, confirm2, stmts, raised,
                    rollback_attempts, propagated, close_count, db0 >>

\* the pre-delete count loop: one count query and one report line per
\* entry of tables_and_counts; records_exist is set by any count above 0
CountQuery ==
    /\ pc = "count"
    /\ pre_counts' = Report(tx, hawaii_property_ids)
    /\ records_exist' =
         \E i \in DOMAIN tables_and_counts :
            CountIn(tx, tables_and_counts[i], hawaii_property_ids) > 0
    /\ pc' = "check_records"
    /\ UNCHANGED << step, db, tx, property_state, conn, cur, hawaii_property_ids,
                    final_counts, confirm1, confirm2, stmts, msgs, raised,
                    rollback_attempts, propagated, close_count, db0 >>

\* if not records_exist: print and return
CheckRecords ==
    /\ pc = "check_records"
    /\ IF ~records_exist
       THEN msgs' = msgs \cup {"no_related"} /\ pc' = "finally"
       ELSE pc' = "gate1" /\ UNCHANGED msgs
    /\ UNCHANGED << step, db, tx, property_state, conn, cur, hawaii_property_ids,
                    records_exist, pre_counts, final_counts, confirm1, confirm2,
                    stmts, raised, rollback_attempts, propagated, close_count,
                    db0 >>

\* confirm = input("... proceed with deletion?"); return unless yes
Gate1 ==
    /\ pc = "gate1"
    /\ \E ans \in Answers :
         /\ confirm1' = ans
         /\ IF ~IsYes(ans)
            THEN /\ msgs' = msgs \cup {"cancelled"}
                 /\ pc' = "finally"
                 /\ UNCHANGED step
            ELSE /\ pc' = "cleanup"
                 /\ step' = 1
                 /\ UNCHANGED msgs
    /\ UNCHANGED << db, tx, property_state, conn, cur, hawaii_property_ids,
                    records_exist, pre_counts, final_counts, confirm2, stmts,
                    raised, rollback_attempts, propagated, close_count, db0 >>

\* cur.execute("DELETE FROM t WHERE property_id IN (...)"): the server
\* rejects it on a foreign-key violation, else removes the rows
ExecDelete ==
    /\ pc = "cleanup"
    /\ DeletePhase[step].op = "DELETE"
    /\ LET t == DeletePhase[step].tbl
       IN IF FKViolation(tx, t, hawaii_property_ids)
          THEN /\ raised' = "fk"
               /\ pc' = "except"
               /\ UNCHANGED << step, db, tx, stmts >>
          ELSE /\ tx' = DeleteFrom(tx, t, hawaii_property_ids)
               /\ db' = Committed(db, tx')
               /\ stmts' = Append(stmts, DeletePhase[step])
               /\ AfterCleanupStep
               /\ UNCHANGED raised
    /\ UNCHANGED << property_state, conn, cur, hawaii_property_ids,
                    records_exist, pre_counts, final_counts, confirm1, confirm2,
                    msgs, rollback_attempts, propagated, close_count, db0 >>

\* cur.execute("ALTER TABLE t DISABLE TRIGGER ...")
DisableTrigger ==
    /\ pc = "cleanup"
    /\ DeletePhase[step].op = "DISABLE"
    /\ tx' = SetTrigger(tx, DeletePhase[step].tbl, FALSE)
    /\ db' = Committed(db, tx')
    /\ stmts' = Append(stmts, DeletePhase[step])
    /\ AfterCleanupStep
    /\ UNCHANGED << property_state, conn, cur, hawaii_property_ids,
                    records_exist, pre_counts, final_counts, confirm1, confirm2,
                    msgs, raised, rollback_attempts, propagated, close_count,
                    db0 >>

\* cur.execute("ALTER TABLE t ENABLE TRIGGER ...")
EnableTrigger ==
    /\ pc = "cleanup"
    /\ DeletePhase[step].op = "ENABLE"
    /\ tx' = SetTrigger(tx, DeletePhase[step].tbl, TRUE)
    /\ db' = Committed(db, tx')
    /\ stmts' = Append(stmts, DeletePhase[step])
    /\ AfterCleanupStep
    /\ UNCHANGED << property_state, conn, cur, hawaii_property_ids,
                    records_exist, pre_counts, final_counts, confirm1, confirm2,
                    msgs, raised, rollback_attempts, propagated, close_count,
                    db0 >>

\* confirm = input("... commit these changes?")
Gate2 ==
    /\ pc = "gate2"
    /\ \E ans \in Answers :
         /\ confirm2' = ans
         /\ pc' = IF IsYes(ans) THEN "commit" ELSE "rollback"
    /\ UNCHANGED << step, db, tx, property_state, conn, cur,
                    hawaii_property_ids, records_exist, pre_counts, final_counts,
                    confirm1, stmts, msgs, raised, rollback_attempts, propagated,
                    close_count, db0 >>

\* conn.commit()
Commit ==
    /\ pc = "commit"
    /\ db' = tx
    /\ stmts' = Append(stmts, Stmt("COMMIT", "-"))
    /\ msgs' = msgs \cup {"committed"}
    /\ pc' = "final"
    /\ step' = 0
    /\ UNCHANGED << tx, property_state, conn, cur, hawaii_property_ids,
                    records_exist, pre_counts, final_counts, confirm1, confirm2,
                    raised, rollback_attempts, propagated, close_count, db0 >>

\* conn.commit() raises although the server has committed (the connection
\* is lost before the acknowledgement arrives)
CommitAckLost ==
    /\ pc = "commit"
    /\ db' = tx
    /\ stmts' = Append(stmts, Stmt("COMMIT", "-"))
    /\ raised' = "commit"
    /\ pc' = "except"
    /\ UNCHANGED << step, tx, property_state, conn, cur, hawaii_property_ids,
                    records_exist, pre_counts, final_counts, confirm1, confirm2,
                    msgs, rollback_attempts, propagated, close_count, db0 >>

\* the else branch of gate 2: conn.rollback()
RollbackDeclined ==
    /\ pc = "rollback"
    /\ tx' = Rollback(db, tx)
    /\ stmts' = Append(stmts, Stmt("ROLLBACK", "-"))
    /\ msgs' = msgs \cup {"rolled_back"}
    /\ pc' = "final"
    /\ step' = 0
    /\ UNCHANGED << db, property_state, conn, cur, hawaii_property_ids,
                    records_exist, pre_counts, final_counts, confirm1, confirm2,
                    raised, rollback_attempts, propagated, close_count, db0 >>

\* the final count loop: the same count query per entry of
\* tables_and_counts, printed as the remaining records
FinalCount ==
    /\ pc = "final"
    /\ IF hawaii_property_ids # {}
       THEN final_counts' = Report(tx, hawaii_property_ids)
       ELSE UNCHANGED final_counts
    /\ pc' = "finally"
    /\ UNCHANGED << step, db, tx, property_state, conn, cur, hawaii_property_ids,
                    records_exist, pre_counts, confirm1, confirm2, stmts, msgs,
                    raised, rollback_attempts, propagated, close_count, db0 >>

\* fault: the except clause only logs
ExceptWithoutRollback ==
    /\ pc = "except"
    /\ msgs' = msgs \cup {"error"}
    /\ pc' = "finally"
    /\ UNCHANGED << step, db, tx, property_state, conn, cur, hawaii_property_ids,
                    records_exist, pre_counts, final_counts, confirm1, confirm2,
                    stmts, raised, rollback_attempts, propagated, close_count,
                    db0 >>

\* except Exception as e: print the error; if 'conn' in locals(): rollback
Except ==
    /\ pc = "except"
    /\ msgs' = msgs \cup {"error"}
    /\ IF conn # "none"
       THEN /\ rollback_attempts' = rollback_attempts + 1
            /\ tx' = Rollback(db, tx)
            /\ stmts' = Append(stmts, Stmt("ROLLBACK", "-"))
       ELSE UNCHANGED << rollback_attempts, tx, stmts >>
    /\ pc' = "finally"
    /\ UNCHANGED << step, db, property_state, conn, cur, hawaii_property_ids,
                    records_exist, pre_counts, final_counts, confirm1, confirm2,
                    raised, propagated, close_count, db0 >>

\* the conn.rollback() of the except clause itself raises: the new
\* exception leaves the function once the finally clause has run
ExceptRollbackRaises ==
    /\ pc = "except"
    /\ conn # "none"
    /\ msgs' = msgs \cup {"error"}
    /\ rollback_attempts' = rollback_attempts + 1
    /\ propagated' = TRUE
    /\ pc' = "finally"
    /\ UNCHANGED << step, db, tx, property_state, conn, cur, hawaii_property_ids,
                    records_exist, pre_counts, final_counts, confirm1, confirm2,
                    stmts, raised, close_count, db0 >>

\* fault: the finally clause closes the cursor only
FinallyLeaksConnection ==
    /\ pc = "finally"
    /\ cur' = IF cur = "none" THEN "none" ELSE "closed"
    /\ pc' = "done"
    /\ UNCHANGED << step, db, tx, property_state, conn, hawaii_property_ids,
                    records_exist, pre_counts, final_counts, confirm1, confirm2,
                    stmts, msgs, raised, rollback_attempts, propagated,
                    close_count, db0 >>

\* finally: close the cursor and the connection when they are bound; the
\* server discards whatever the connection left uncommitted
Finally ==
    /\ pc = "finally"
    /\ cur' = IF cur = "none" THEN "none" ELSE "closed"
    /\ IF conn # "none"
       THEN /\ conn' = "closed"
            /\ close_count' = close_count + 1
            /\ msgs' = msgs \cup {"closed"}
            /\ tx' = Rollback(db, tx)
       ELSE UNCHANGED << conn, close_count, msgs, tx >>
    /\ pc' = "done"
    /\ UNCHANGED << step, db, property_state, hawaii_property_ids,
                    records_exist, pre_counts, final_counts, confirm1, confirm2,
                    stmts, raised, rollback_attempts, propagated, db0 >>

Next ==
    \/ Connect
    \/ ConnectRaises
    \/ Cursor
    \/ StatementRaises
    \/ Identify
    \/ CountQuery
    \/ CheckRecords
    \/ Gate1
    \/ ExecDelete
    \/ DisableTrigger
    \/ EnableTrigger
    \/ Gate2
    \/ Commit
    \/ CommitAckLost
    \/ RollbackDeclined
    \/ FinalCount
    \/ Except
    \/ ExceptRollbackRaises
    \/ Finally

Spec == Init /\ [][Next]_vars

\* the same program on the schema in which loans is tracked too
SpecLoansTracked == InitLoansTracked /\ [][Next]_vars

\* every step of the single thread of control is eventually taken
FairSpec == Init /\ [][Next]_vars /\ WF_vars(Next)

(* ======================================================================= *)
(* Properties                                                              *)
(* ======================================================================= *)
\* the property ids the filter matches at the start of the run
InitialTargets ==
    { p \in PropIds : db0.rows["properties"][p] > 0 /\ property_state[p] = "HI" }

\* at the start no dependent table holds a row referencing a matching id
NoDependentRows ==
    \A t \in DependentTables : \A p \in InitialTargets : db0.rows[t][p] = 0

Mutates(s) == s.op \in {"DELETE", "DISABLE", "ENABLE", "COMMIT"}
IsDelete(s) == s.op = "DELETE"
Executed(s) == \E i \in DOMAIN stmts : stmts[i] = s
Occurrences(s) == Cardinality({ i \in DOMAIN stmts : stmts[i] = s })
Answered(c) == c # NoAnswer
SaidYes(c) == Answered(c) /\ Lower(c) = yes
Declined(c) == Answered(c) /\ Lower(c) # yes
Ended == pc \in {"finally", "done"}

\* the start contents with every targeted row removed and the triggers on
AllRemoved ==
    LET targets == InitialTargets
    IN [ rows |-> [ t \in Tables |->
                      [ p \in PropIds |->
                          IF p \in targets THEN 0 ELSE db0.rows[t][p] ] ],
         trig |-> [ t \in TrackedTables |->
                    IF t \in {"property_owners", "properties"} THEN TRUE
                    ELSE db0.trig[t] ] ]

\* C1: a DELETE, a trigger toggle or a commit is executed only after the
\* parent query returned a row and gate 1 was answered "yes" (any case);
\* with no parent row, or any other answer at gate 1, the table contents
\* and trigger flags stay what they were at the start.
C1_NoMutationWithoutGate1 ==
    /\ (\/ \E i \in DOMAIN stmts : Mutates(stmts[i])
        \/ pc \in {"cleanup", "commit"})
          => (hawaii_property_ids # {} /\ SaidYes(confirm1))
    /\ (InitialTargets = {} \/ Declined(confirm1))
          => (db = db0 /\ tx = db0 /\ \A i \in DOMAIN stmts : ~Mutates(stmts[i]))

C1_Witness ==
    /\ pc = "done"
    /\ confirm1 = << "y", "e", "s", " " >>
    /\ db = db0
    /\ raised = "none"

\* C2: gate 1 "yes", gate 2 anything else, nothing raises: the deletes are
\* rolled back, the committed contents are unchanged and the final report
\* prints, for every table, the count the pre-delete report printed.
C2_DeclinedCommitRestores ==
    (SaidYes(confirm1) /\ Declined(confirm2) /\ raised = "none")
       => /\ db = db0
          /\ pc \in {"final", "finally", "done"} => tx = db0
          /\ Ended => (DOMAIN final_counts = Tables /\ final_counts = pre_counts)

C2_Witness ==
    /\ pc = "done"
    /\ SaidYes(confirm1)
    /\ Declined(confirm2)
    /\ raised = "none"
    /\ Executed(Stmt("DELETE", "loans"))
    /\ final_counts["loans"] > 0

\* C3: both gates "yes", nothing raises: the final report prints zero for
\* every table and the committed contents hold no row of a captured id.
C3_CommittedCleanupLeavesNothing ==
    (SaidYes(confirm1) /\ SaidYes(confirm2) /\ raised = "none" /\ Ended)
       => /\ DOMAIN final_counts = Tables
          /\ \A t \in Tables :
               /\ final_counts[t] = 0
               /\ \A p \in hawaii_property_ids : db.rows[t][p] = 0

C3_Witness ==
    /\ pc = "done"
    /\ SaidYes(confirm1)
    /\ SaidYes(confirm2)
    /\ raised = "none"
    /\ Cardinality(hawaii_property_ids) = 2
    /\ pre_counts["loans"] > 0
    /\ final_counts["loans"] = 0

\* C4 as stated: parent rows match but no dependent table references them:
\* the procedure aborts with "nothing to delete" without prompting and
\* executes no DELETE.
C4_AbortsWithoutDependents ==
    (InitialTargets # {} /\ NoDependentRows)
       => /\ pc # "gate1"
          /\ ~Answered(confirm1)
          /\ \A i \in DOMAIN stmts : ~IsDelete(stmts[i])
          /\ (pc = "done" /\ raised = "none") => "no_related" \in msgs

\* C4 amended: the count loop includes properties itself, so with matching
\* parent rows records_exist is true and the "no related records" abort is
\* never taken; without dependents the procedure still asks gate 1, and a
\* DELETE is executed only after gate 1 was answered "yes".
C4_NoAbortWhenParentsMatch ==
    /\ "no_related" \notin msgs
    /\ pc = "check_records" => records_exist
    /\ (InitialTargets # {} /\ NoDependentRows)
          => /\ (pc = "done" /\ raised = "none") => Answered(confirm1)
             /\ (\E i \in DOMAIN stmts : IsDelete(stmts[i])) => SaidYes(confirm1)

C4_Witness ==
    /\ InitialTargets # {}
    /\ NoDependentRows
    /\ pc = "done"
    /\ Executed(Stmt("DELETE", "properties"))
    /\ "committed" \in msgs

\* the tables of the DELETE statements executed so far, in order
DeletedTables ==
    LET d == SelectSeq(stmts, IsDelete)
    IN [ i \in DOMAIN d |-> d[i].tbl ]

FixedOrder ==
    << "property_owner_history", "property_history", "loan_history",
       "mail_recipients", "loans", "property_owners", "properties" >>

\* C5: the DELETEs run in the fixed order history tables, mail_recipients,
\* loans, property_owners, properties, and when the DELETE on a table is
\* about to run no table referencing it holds a row of a targeted id, so
\* no DELETE is rejected for a foreign key.
C5_DependentsBeforeParents ==
    /\ Len(DeletedTables) <= Len(FixedOrder)
    /\ DeletedTables = SubSeq(FixedOrder, 1, Len(DeletedTables))
    /\ raised # "fk"
    /\ (pc = "cleanup" /\ DeletePhase[step].op = "DELETE")
          => \A c \in ReferencedBy(DeletePhase[step].tbl) :
               \A p \in hawaii_property_ids : tx.rows[c][p] = 0

C5_Witness ==
    /\ pc = "cleanup"
    /\ DeletePhase[step] = Stmt("DELETE", "loans")
    /\ \E p \in hawaii_property_ids :
         /\ db0.rows["mail_recipients"][p] > 0
         /\ tx.rows["loans"][p] > 0
         /\ tx.rows["mail_recipients"][p] = 0

\* the statement DISABLE of table t is followed at once by its DELETE and
\* its ENABLE, and each toggle occurs once
ToggledAround(t) ==
    /\ Occurrences(Stmt("DISABLE", t)) = 1
    /\ Occurrences(Stmt("ENABLE", t)) = 1
    /\ \E i \in DOMAIN stmts :
         /\ i + 2 <= Len(stmts)
         /\ stmts[i] = Stmt("DISABLE", t)
         /\ stmts[i + 1] = Stmt("DELETE", t)
         /\ stmts[i + 2] = Stmt("ENABLE", t)

\* C6: when both gates are answered "yes", each of the two triggers was
\* disabled once and enabled once, around the DELETE of its table with no
\* statement in between, and both are enabled when gate 2 is asked.
C6_TriggersToggledOnce ==
    /\ SaidYes(confirm2)
          => (ToggledAround("property_owners") /\ ToggledAround("properties"))
    /\ pc = "gate2"
          => /\ tx.trig["property_owners"] /\ tx.trig["properties"]
             /\ ToggledAround("property_owners") /\ ToggledAround("properties")

C6_Witness ==
    /\ pc = "final"
    /\ SaidYes(confirm1)
    /\ SaidYes(confirm2)
    /\ ToggledAround("properties")

\* C7 as stated: every exception, wherever raised, is logged, answered
\* with a rollback attempt on the connection, and never leaves the function.
C7_EveryExceptionRolledBack ==
    (raised # "none" /\ pc = "done")
       => /\ "error" \in msgs
          /\ rollback_attempts >= 1
          /\ ~propagated

\* C7 amended: every exception raised in the try body is caught and
\* logged; a rollback is attempted exactly when the connection had been
\* acquired (a failed connect has nothing to roll back); the caught
\* exception does not leave the function, but an exception raised by that
\* rollback does, after the finally clause.
C7_CaughtLoggedRolledBackIfConnected ==
    /\ (raised # "none" /\ Ended)
          => /\ "error" \in msgs
             /\ conn # "none" => rollback_attempts = 1
             /\ conn = "none" => (raised = "connect" /\ rollback_attempts = 0)
             /\ ~propagated => tx = db
    /\ propagated => (raised # "none" /\ conn # "none" /\ rollback_attempts = 1)
    /\ raised = "none" => rollback_attempts = 0

C7_Witness ==
    /\ pc = "done"
    /\ raised = "cleanup"
    /\ rollback_attempts = 1
    /\ ~propagated
    /\ Executed(Stmt("DELETE", "loans"))
    /\ db = db0

\* C8: once the connection is acquired, every execution eventually closes
\* it, and closes it once, whatever the outcome.
C8_ConnectionClosedOnce ==
    /\ [](close_count <= 1)
    /\ [](pc = "done" /\ conn # "none" => conn = "closed" /\ close_count = 1)
    /\ (conn = "open") ~> (conn = "closed" /\ close_count = 1)

C8_Witness ==
    /\ pc = "done"
    /\ propagated
    /\ conn = "closed"
    /\ close_count = 1

InDeletePhase == pc \in {"cleanup", "gate2"}

\* once the DELETE on history table h has run, and until the delete phase
\* ends, h holds no row of a targeted id
StaysEmpty(h) ==
    (InDeletePhase /\ Executed(Stmt("DELETE", h)))
       => \A p \in hawaii_property_ids : tx.rows[h][p] = 0

C10_AllOrNothing ==
    /\ db = db0 \/ db = AllRemoved
    /\ Occurrences(Stmt("COMMIT", "-")) <= 1
    /\ \A i \in DOMAIN stmts :
         stmts[i].op = "COMMIT"
            => /\ \A t \in Tables :
                    \E j \in 1..(i - 1) : stmts[j] = Stmt("DELETE", t)
               /\ \A t \in {"property_owners", "properties"} :
                    \E j \in 1..(i - 1) :
                       /\ stmts[j] = Stmt("ENABLE", t)
                       /\ \A k \in (j + 1)..(i - 1) : stmts[k] # Stmt("DISABLE", t)

C10_Witness ==
    /\ pc = "done"
    /\ db # db0
    /\ db = AllRemoved
    /\ db.trig["property_owners"] /\ db.trig["properties"]
    /\ raised = "final"

====
